---- MODULE Spec2Model ----
(***************************************************************************)
(* Model of src/api/index.ts: the three read-only endpoints                *)
(*   GET /behaviors/:name/:realm, GET /rejoinRating/:name/:realm and       *)
(*   GET /score/:name/:realm                                               *)
(* together with the helper processBehaviorData and the inner function     *)
(* calculateTeammateScore.                                                 *)
(*                                                                         *)
(* A JavaScript string is a sequence of tokens.  The token ":" is the      *)
(* delimiter character, "0".."2" and "-" are the digit and sign            *)
(* characters, every other token is a non-empty run of characters that     *)
(* holds neither a colon nor a leading digit or sign.  A JavaScript value  *)
(* is a record [t, n, parts]: t is the type tag, n the integer of a        *)
(* number, parts the characters a string holds after the text of the       *)
(* inherited function it started from.  A quotient is a pair [num, den]    *)
(* of integers, so that the arithmetic of the score is exact.              *)
(***************************************************************************)
EXTENDS Integers, Sequences, FiniteSets, TLC

VARIABLES
  pc,               \* where the request in hand stands
  endpoint,         \* the route of the request in hand
  reqName, reqRealm, \* req.params.name, req.params.realm
  behaviorScan,     \* outcome of the behaviour scan made for the request
  rejoinScan,       \* outcome of the rejoin scan made for the request
  behaviorResponse, \* what axios got from /behaviors, inside /score
  rejoinResponse,   \* what axios got from /rejoinRating, inside /score
  fetches,          \* the axios requests /score has issued, in order
  calls,            \* how often calculateTeammateScore ran
  divisors,         \* the divisors of the rate divisions performed
  res,              \* the response sent to the client
  sent              \* how many responses the request has received

vars == <<pc, endpoint, reqName, reqRealm, behaviorScan, rejoinScan, behaviorResponse,
          rejoinResponse, fetches, calls, divisors, res, sent>>

\* ---------------------------------------------------------------- bounds
MaxBehaviorKeys == 2
MaxRejoinKeys == 2
MaxCalcRejoin == 2

\* ------------------------------------------------------------ JS values
Num(n) == [t |-> "int", n |-> n, parts |-> <<>>]
NaN == [t |-> "nan", n |-> 0, parts |-> <<>>]
Null == [t |-> "null", n |-> 0, parts |-> <<>>]
Undefined == [t |-> "undef", n |-> 0, parts |-> <<>>]
FnObject == [t |-> "fn", n |-> 0, parts |-> <<>>]
Str(parts) == [t |-> "str", n |-> 0, parts |-> parts]

\* Characters of String(v) for a number v: decimal digits 0..9, -1 for the
\* minus sign, -2 for the text NaN.
RECURSIVE digitsOf(_)
digitsOf(n) == IF n < 10 THEN <<n>> ELSE digitsOf(n \div 10) \o <<n % 10>>

numberToString(v) ==
  IF v.t = "nan" THEN <<-2>>
  ELSE IF v.n < 0 THEN <<-1>> \o digitsOf(-v.n) ELSE digitsOf(v.n)

\* ToBoolean
truthy(v) ==
  CASE v.t = "int" -> v.n # 0
    [] v.t = "str" -> TRUE
    [] v.t = "fn" -> TRUE
    [] OTHER -> FALSE

\* a + b where b is a number (an integer or NaN)
jsAdd(a, b) ==
  CASE a.t = "fn" -> Str(numberToString(b))
    [] a.t = "str" -> Str(a.parts \o numberToString(b))
    [] a.t = "int" /\ b.t = "int" -> Num(a.n + b.n)
    [] OTHER -> NaN

\* ----------------------------------------------------------- JS strings
RECURSIVE splitFrom(_, _, _)
splitFrom(s, cur, out) ==
  IF s = <<>> THEN Append(out, cur)
  ELSE IF Head(s) = ":" THEN splitFrom(Tail(s), <<>>, Append(out, cur))
  ELSE splitFrom(Tail(s), Append(cur, Head(s)), out)

\* String.prototype.split(":")
split(s) == splitFrom(s, <<>>, <<>>)

\* Array.prototype.join(":")
RECURSIVE join(_)
join(segs) ==
  IF segs = <<>> THEN <<>>
  ELSE IF Len(segs) = 1 THEN segs[1]
  ELSE segs[1] \o <<":">> \o join(Tail(segs))

\* Array.prototype.slice(from), from counted from 0
slice(arr, from) == SubSeq(arr, from + 1, Len(arr))

isDigit(c) == c \in {"0", "1", "2"}
digitValue(c) == CASE c = "0" -> 0 [] c = "1" -> 1 [] c = "2" -> 2

RECURSIVE parseDigits(_, _, _)
parseDigits(s, acc, seen) ==
  IF s # <<>> /\ isDigit(Head(s))
  THEN parseDigits(Tail(s), 10 * acc + digitValue(Head(s)), TRUE)
  ELSE IF seen THEN Num(acc) ELSE NaN

\* parseInt(s, 10): an optional sign, then the longest run of digits; what
\* follows the digits is ignored, and no digit at all gives NaN.
\* segments[-1] of a one-segment key cannot happen: every key has a prefix.
parseInt(s) ==
  IF s # <<>> /\ Head(s) = "-"
  THEN LET v == parseDigits(Tail(s), 0, FALSE)
       IN IF v.t = "int" THEN Num(-v.n) ELSE NaN
  ELSE parseDigits(s, 0, FALSE)

\* ------------------------------------------------- processBehaviorData
\* Names every plain object inherits from Object.prototype as functions.
ObjectPrototypeFunctions ==
  {<<"constructor">>, <<"toString">>, <<"valueOf">>, <<"hasOwnProperty">>}

fixedCategories ==
  {<<"damage">>, <<"defense">>, <<"healing">>, <<"communication">>}

\* keys.map(...): behaviorName is segments[length - 2] (undefined when the
\* key has one segment), value is parseInt of segments[length - 1].
labelAndValue(key) ==
  LET segments == split(key)
      n == Len(segments)
  IN [defined |-> n >= 2,
      behaviorName |-> IF n >= 2 THEN segments[n - 1] ELSE <<>>,
      value |-> parseInt(segments[n])]

indexOfName(labelSum, name) ==
  LET hits == {i \in 1..Len(labelSum) : labelSum[i].name = name}
  IN IF hits = {} THEN 0 ELSE CHOOSE i \in hits : TRUE

\* labelSum[behaviorName] as an expression: the own property, else the
\* property inherited from Object.prototype, else undefined.
getProperty(labelSum, name) ==
  LET i == indexOfName(labelSum, name)
  IN IF i # 0 THEN labelSum[i].value
     ELSE IF name \in ObjectPrototypeFunctions THEN FnObject
     ELSE Undefined

\* labelSum[behaviorName] = v: own properties keep their insertion order.
setProperty(labelSum, name, v) ==
  LET i == indexOfName(labelSum, name)
  IN IF i # 0 THEN [labelSum EXCEPT ![i].value = v]
     ELSE Append(labelSum, [name |-> name, value |-> v])

\* One turn of the forEach over labelsAndValues.
addLabel(labelSum, lv) ==
  IF lv.defined /\ lv.behaviorName # <<>>
  THEN LET old == getProperty(labelSum, lv.behaviorName)
           base == IF truthy(old) THEN old ELSE Num(0)
       IN setProperty(labelSum, lv.behaviorName, jsAdd(base, lv.value))
  ELSE labelSum

RECURSIVE sumLabels(_, _)
sumLabels(keys, labelSum) ==
  IF keys = <<>> THEN labelSum
  ELSE sumLabels(Tail(keys), addLabel(labelSum, labelAndValue(Head(keys))))

\* A variant that names a category by the whole key up to its value.
processBehaviorData_wholePrefix(keys) ==
  [i \in 1..Len(keys) |->
     LET segments == split(keys[i])
     IN [name |-> join(SubSeq(segments, 1, Len(segments) - 1)),
         value |-> parseInt(segments[Len(segments)])]]

\* The list of {name, value}, one entry per own property of labelSum.
processBehaviorData(keys) == sumLabels(keys, <<>>)

\* --------------------------------------------------------- quotients
Q(num, den) == [num |-> num, den |-> den]
qAdd(a, b) == Q(a.num * b.den + b.num * a.den, a.den * b.den)
qMul(a, b) == Q(a.num * b.num, a.den * b.den)
\* a / b; a zero divisor gives a quotient with den = 0 (NaN or Infinity)
qDiv(a, b) == Q(a.num * b.den, a.den * b.num)
qInt(n) == Q(n, 1)

\* ------------------------------------------------------------ JSON wire
\* JSON.stringify writes NaN as null; JSON.parse reads null back.
jsonValue(v) == IF v.t = "nan" THEN Null ELSE v

jsonItems(data) ==
  [i \in 1..Len(data) |-> [name |-> data[i].name, value |-> jsonValue(data[i].value)]]

\* ------------------------------------------------------ the key space
Names == {<<"Foo">>}
Realms == {<<"Bar">>, <<"Baz">>}

\* What follows the scanned prefix in a stored behaviour key.
BehaviorTails ==
  { <<"damage", ":", "1">>,
    <<"damage", ":", "2">>,
    <<"damage", ":", "x">>,
    <<"defense", ":", "-", "1">>,
    <<"healing", ":", "0">>,
    <<"communication", ":", "1", "x">>,
    <<"constructor", ":", "1">>,
    <<"constructor", ":", "2">>,
    <<"other", ":", "1">>,
    <<"u", ":", "damage", ":", "1", "2">>,
    <<":", "1">>,
    <<"damage">> }

\* What follows the scanned prefix in a stored rejoin key.
RejoinTails == { <<"yes">>, <<"no">>, <<"yes", ":", "x">> }

behaviorPrefix(name, realm) ==
  <<"wowbehave", ":", "behavior", ":">> \o name \o <<":">> \o realm \o <<":">>

rejoinPrefix(name, realm) ==
  <<"wowbehave", ":", "rejoin", ":">> \o name \o <<":">> \o realm \o <<":">>

\* The outcomes of redis.keys(prefix + "*"): a rejected promise, or the
\* stored keys that start with the prefix, no key twice, in any order.
scanOutcomes(prefix, tails, max) ==
  {[ok |-> FALSE, keys |-> <<>>]} \cup
  {[ok |-> TRUE, keys |-> [i \in 1..Len(f) |-> prefix \o f[i]]] :
     f \in {g \in UNION {[1..n -> tails] : n \in 0..max} :
              \A i, j \in 1..Len(g) : i # j => g[i] # g[j]}}

\* ------------------------------------------------------ HTTP responses
NoResponse ==
  [status |-> 0, success |-> FALSE, hasData |-> FALSE, data |-> <<>>,
   hasScore |-> FALSE, score |-> Q(0, 1)]

notFound == [NoResponse EXCEPT !.status = 404]
internalError == [NoResponse EXCEPT !.status = 500]
okData(data) ==
  [NoResponse EXCEPT !.status = 200, !.success = TRUE, !.hasData = TRUE, !.data = data]
okScore(score) ==
  [NoResponse EXCEPT !.status = 200, !.success = TRUE, !.hasScore = TRUE, !.score = score]

\* A variant without the check for an empty scan.
behaviorsResponse_noEmptyCheck(scan) ==
  IF ~scan.ok THEN internalError
  ELSE okData(jsonItems(processBehaviorData(scan.keys)))

\* The body of GET /behaviors/:name/:realm after the scan, as the client
\* reads it off the wire.
behaviorsResponse(scan) ==
  IF ~scan.ok THEN internalError
  ELSE IF Len(scan.keys) = 0 THEN notFound
  ELSE okData(jsonItems(processBehaviorData(scan.keys)))

\* parts.slice(3).join(":") of one rejoin key
rejoinEntry(key) == [key |-> join(slice(split(key), 3))]

\* A variant without the check for an empty scan.
rejoinRatingResponse_noEmptyCheck(scan) ==
  IF ~scan.ok THEN internalError
  ELSE okData([i \in 1..Len(scan.keys) |-> rejoinEntry(scan.keys[i])])

\* The body of GET /rejoinRating/:name/:realm after the scan.
rejoinRatingResponse(scan) ==
  IF ~scan.ok THEN internalError
  ELSE IF Len(scan.keys) = 0 THEN notFound
  ELSE okData([i \in 1..Len(scan.keys) |-> rejoinEntry(scan.keys[i])])

\* A variant of axios configured to resolve whatever the status.
axiosRejects_never(response) == FALSE

\* axios.get rejects its promise for a status outside 2xx.
axiosRejects(response) == ~(response.status >= 200 /\ response.status < 300)

\* ----------------------------------------------- calculateTeammateScore
\* segments[segments.length - 1] of item.name.split(":")
lastSegment(name) == LET segments == split(name) IN segments[Len(segments)]

\* categoryScores[behaviorName] += value, for a number or a null value
addValue(acc, v) == IF v.t = "int" THEN acc + v.n ELSE acc

RECURSIVE categoryScore(_, _)
categoryScore(data, category) ==
  IF data = <<>> THEN 0
  ELSE LET rest == categoryScore(Tail(data), category)
       IN IF lastSegment(Head(data).name) = category
          THEN addValue(rest, Head(data).value) ELSE rest

RECURSIVE rejoinScore(_)
rejoinScore(data) ==
  IF data = <<>> THEN 0
  ELSE (IF Head(data).key = <<"yes">> THEN 1 ELSE 0) + rejoinScore(Tail(data))

\* A variant that averages over the categories present in the data.
calculateTeammateScore_presentOnly(behaviorData, rejoinData) ==
  LET present == {c \in fixedCategories :
                    \E i \in 1..Len(behaviorData.data) : behaviorData.data[i].name = c}
      sum == categoryScore(behaviorData.data, <<"damage">>)
             + categoryScore(behaviorData.data, <<"defense">>)
             + categoryScore(behaviorData.data, <<"healing">>)
             + categoryScore(behaviorData.data, <<"communication">>)
      totalCategoryScore ==
        qDiv(qInt(sum), qInt(IF present = {} THEN 4 ELSE Cardinality(present)))
      normalizedCategoryScore ==
        qMul(qDiv(qAdd(totalCategoryScore, qInt(1)), qInt(2)), qInt(100))
      rejoinRate == qDiv(qInt(rejoinScore(rejoinData.data)), qInt(Len(rejoinData.data)))
  IN qAdd(normalizedCategoryScore, qMul(rejoinRate, qInt(10)))

calculateTeammateScore(behaviorData, rejoinData) ==
  IF ~behaviorData.hasData \/ ~rejoinData.hasData THEN qInt(0)
  ELSE
  LET sum == categoryScore(behaviorData.data, <<"damage">>)
             + categoryScore(behaviorData.data, <<"defense">>)
             + categoryScore(behaviorData.data, <<"healing">>)
             + categoryScore(behaviorData.data, <<"communication">>)
      totalCategoryScore == qDiv(qInt(sum), qInt(4))
      normalizedCategoryScore ==
        qMul(qDiv(qAdd(totalCategoryScore, qInt(1)), qInt(2)), qInt(100))
      rejoinRate == qDiv(qInt(rejoinScore(rejoinData.data)), qInt(Len(rejoinData.data)))
  IN qAdd(normalizedCategoryScore, qMul(rejoinRate, qInt(10)))

\* The divisors of the rate division a call performs.
rateDivisors(behaviorData, rejoinData) ==
  IF ~behaviorData.hasData \/ ~rejoinData.hasData THEN {}
  ELSE {Len(rejoinData.data)}

\* ------------------------------------------------------------ requests
NoScan == [issued |-> FALSE, ok |-> FALSE, keys |-> <<>>]
scanned(outcome) == [issued |-> TRUE, ok |-> outcome.ok, keys |-> outcome.keys]

Init ==
  /\ pc = "idle"
  /\ endpoint = "none"
  /\ reqName \in Names
  /\ reqRealm \in Realms
  /\ behaviorScan = NoScan
  /\ rejoinScan = NoScan
  /\ behaviorResponse = NoResponse
  /\ rejoinResponse = NoResponse
  /\ fetches = <<>>
  /\ calls = 0
  /\ divisors = {}
  /\ res = NoResponse
  /\ sent = 0

\* The server is free to take a request.
free == pc = "idle"

\* The answered request leaves the server: nothing of it is kept.
Listen ==
  /\ pc = "done"
  /\ pc' = "idle"
  /\ endpoint' = "none"
  /\ behaviorScan' = NoScan
  /\ rejoinScan' = NoScan
  /\ behaviorResponse' = NoResponse
  /\ rejoinResponse' = NoResponse
  /\ fetches' = <<>>
  /\ calls' = 0
  /\ divisors' = {}
  /\ res' = NoResponse
  /\ sent' = 0
  /\ UNCHANGED <<reqName, reqRealm>>

\* GET /behaviors/:name/:realm
GetBehaviors ==
  /\ free
  /\ \E n \in Names, r \in Realms :
       \E outcome \in scanOutcomes(behaviorPrefix(n, r), BehaviorTails, MaxBehaviorKeys) :
         /\ reqName' = n
         /\ reqRealm' = r
         /\ behaviorScan' = scanned(outcome)
         /\ res' = behaviorsResponse(outcome)
  /\ endpoint' = "behaviors"
  /\ rejoinScan' = NoScan
  /\ behaviorResponse' = NoResponse
  /\ rejoinResponse' = NoResponse
  /\ fetches' = <<>>
  /\ calls' = 0
  /\ divisors' = {}
  /\ sent' = 1
  /\ pc' = "done"

\* GET /rejoinRating/:name/:realm
GetRejoinRating ==
  /\ free
  /\ \E n \in Names, r \in Realms :
       \E outcome \in scanOutcomes(rejoinPrefix(n, r), RejoinTails, MaxRejoinKeys) :
         /\ reqName' = n
         /\ reqRealm' = r
         /\ rejoinScan' = scanned(outcome)
         /\ res' = rejoinRatingResponse(outcome)
  /\ endpoint' = "rejoinRating"
  /\ behaviorScan' = NoScan
  /\ behaviorResponse' = NoResponse
  /\ rejoinResponse' = NoResponse
  /\ fetches' = <<>>
  /\ calls' = 0
  /\ divisors' = {}
  /\ sent' = 1
  /\ pc' = "done"

\* GET /score/:name/:realm up to its first await: the behaviour fetch.
GetScore ==
  /\ free
  /\ \E n \in Names, r \in Realms : reqName' = n /\ reqRealm' = r
  /\ endpoint' = "score"
  /\ behaviorScan' = NoScan
  /\ rejoinScan' = NoScan
  /\ behaviorResponse' = NoResponse
  /\ rejoinResponse' = NoResponse
  /\ fetches' = <<"behaviors">>
  /\ calls' = 0
  /\ divisors' = {}
  /\ res' = NoResponse
  /\ sent' = 0
  /\ pc' = "awaitBehaviors"

\* /score resumes with the answer of /behaviors: a rejected promise goes to
\* the catch block, a resolved one to the rejoin fetch.
ScoreBehaviorsReply ==
  /\ pc = "awaitBehaviors"
  /\ \E outcome \in scanOutcomes(behaviorPrefix(reqName, reqRealm), BehaviorTails, MaxBehaviorKeys) :
       LET response == behaviorsResponse(outcome)
       IN /\ behaviorScan' = scanned(outcome)
          /\ behaviorResponse' = response
          /\ IF axiosRejects(response)
             THEN /\ res' = internalError
                  /\ sent' = sent + 1
                  /\ fetches' = fetches
                  /\ pc' = "done"
             ELSE /\ fetches' = Append(fetches, "rejoinRating")
                  /\ pc' = "awaitRejoin"
                  /\ UNCHANGED <<res, sent>>
  /\ UNCHANGED <<endpoint, reqName, reqRealm, rejoinScan, rejoinResponse, calls, divisors>>

\* /score resumes with the answer of /rejoinRating and runs to its response.
ScoreRejoinReply ==
  /\ pc = "awaitRejoin"
  /\ \E outcome \in scanOutcomes(rejoinPrefix(reqName, reqRealm), RejoinTails, MaxRejoinKeys) :
       LET response == rejoinRatingResponse(outcome)
       IN /\ rejoinScan' = scanned(outcome)
          /\ rejoinResponse' = response
          /\ IF axiosRejects(response)
             THEN /\ res' = internalError
                  /\ UNCHANGED <<calls, divisors>>
             ELSE IF ~behaviorResponse.success \/ ~response.success
             THEN /\ res' = notFound
                  /\ UNCHANGED <<calls, divisors>>
             ELSE /\ res' = okScore(calculateTeammateScore(behaviorResponse, response))
                  /\ calls' = calls + 1
                  /\ divisors' = divisors \cup rateDivisors(behaviorResponse, response)
  /\ sent' = sent + 1
  /\ pc' = "done"
  /\ UNCHANGED <<endpoint, reqName, reqRealm, behaviorScan, behaviorResponse, fetches>>

Next ==
  \/ GetBehaviors
  \/ GetRejoinRating
  \/ GetScore
  \/ ScoreBehaviorsReply
  \/ ScoreRejoinReply
  \/ Listen

Spec == Init /\ [][Next]_vars

\* ------------------------------------- calculateTeammateScore on its own
\* The inputs of the calculator: every set of at most one item per name,
\* with integer values, and every non-empty list of rejoin entries.
CalcNames == <<<<"damage">>, <<"defense">>, <<"healing">>, <<"communication">>, <<"other">>>>
CalcValues == -1..2
CalcKeys == {<<"yes">>, <<"no">>, <<"Bar", ":", "yes">>}

RECURSIVE itemsOf(_, _)
itemsOf(totals, i) ==
  IF i > Len(CalcNames) THEN <<>>
  ELSE (IF i \in DOMAIN totals
        THEN <<[name |-> CalcNames[i], value |-> Num(totals[i])]>> ELSE <<>>)
       \o itemsOf(totals, i + 1)

CalcBehaviorInputs ==
  {okData(itemsOf(totals, 1)) :
     totals \in UNION {[present -> CalcValues] : present \in SUBSET (1..Len(CalcNames))}}

CalcRejoinInputs ==
  {okData([i \in 1..Len(ks) |-> [key |-> ks[i]]]) :
     ks \in UNION {[1..n -> CalcKeys] : n \in 1..MaxCalcRejoin}}

InitCalc ==
  /\ pc = "calc"
  /\ endpoint = "score"
  /\ reqName = <<"Foo">>
  /\ reqRealm = <<"Bar">>
  /\ behaviorScan = NoScan
  /\ rejoinScan = NoScan
  /\ behaviorResponse \in CalcBehaviorInputs
  /\ rejoinResponse \in CalcRejoinInputs
  /\ fetches = <<"behaviors", "rejoinRating">>
  /\ calls = 0
  /\ divisors = {}
  /\ res = NoResponse
  /\ sent = 0

\* const score = calculateTeammateScore(behaviorData, rejoinData), and the
\* response that carries it.
Calculate ==
  /\ pc = "calc"
  /\ res' = okScore(calculateTeammateScore(behaviorResponse, rejoinResponse))
  /\ calls' = calls + 1
  /\ divisors' = divisors \cup rateDivisors(behaviorResponse, rejoinResponse)
  /\ sent' = sent + 1
  /\ pc' = "calcDone"
  /\ UNCHANGED <<endpoint, reqName, reqRealm, behaviorScan, rejoinScan,
                 behaviorResponse, rejoinResponse, fetches>>

NextCalc == Calculate

SpecCalc == InitCalc /\ [][NextCalc]_vars

\* ============================================================== claims
\* Helpers of the claims, stated without the operators of the model.
totalOrZero(data, category) ==
  LET hits == {i \in 1..Len(data) : data[i].name = category}
  IN IF hits = {} THEN 0 ELSE data[CHOOSE i \in hits : TRUE].value.n

fourTotals(data) ==
  totalOrZero(data, <<"damage">>) + totalOrZero(data, <<"defense">>)
  + totalOrZero(data, <<"healing">>) + totalOrZero(data, <<"communication">>)

yesEntries(data) == Cardinality({i \in 1..Len(data) : data[i].key = <<"yes">>})

\* score = ((sum / 4 + 1) / 2) * 100 + (yes / total) * 10, cleared of fractions
scoreIs(score, sum, yes, total) ==
  /\ score.den # 0
  /\ score.num * 2 * total = score.den * (25 * (sum + 4) * total + 20 * yes)

faultOccurred ==
  \/ behaviorScan.issued /\ ~behaviorScan.ok
  \/ rejoinScan.issued /\ ~rejoinScan.ok

emptyScan(scan) == scan.issued /\ scan.ok /\ scan.keys = <<>>

asMapping(data) == {data[i] : i \in 1..Len(data)}

\* C1: when the behaviour scan or the rejoin scan of a score request returns
\* zero keys and no scan failed, the score lookup answers 404 with
\* success = false, carries no score, and never ran the calculation.
C1_EmptyScanGivesNotFound ==
  (endpoint = "score" /\ pc = "done" /\ ~faultOccurred
     /\ (emptyScan(behaviorScan) \/ emptyScan(rejoinScan)))
  => (res.status = 404 /\ ~res.success /\ ~res.hasScore /\ calls = 0)

\* C2: for a non-empty rejoin scan, the rejoin part of the returned score is
\* 10 * (keys whose answer is exactly "yes") / (keys), the category part
\* being the one the calculator computes.
C2_RejoinContribution ==
  (endpoint = "score" /\ pc = "done" /\ res.hasScore /\ rejoinScan.keys # <<>>)
  => LET keys == rejoinScan.keys
         yesKeys == Cardinality({i \in 1..Len(keys) :
                       keys[i] = rejoinPrefix(reqName, reqRealm) \o <<"yes">>})
         sum == categoryScore(behaviorResponse.data, <<"damage">>)
                + categoryScore(behaviorResponse.data, <<"defense">>)
                + categoryScore(behaviorResponse.data, <<"healing">>)
                + categoryScore(behaviorResponse.data, <<"communication">>)
     IN scoreIs(res.score, sum, yesKeys, Len(keys))

\* C3: a behaviour key whose last segment is not an integer is dropped: the
\* totals a lookup answers with are those of the scan without such keys.
parsesAsInteger(key) ==
  LET segments == split(key) IN parseInt(segments[Len(segments)]).t = "int"

wellFormedKeys(keys) == SelectSeq(keys, parsesAsInteger)

C3_MalformedKeysDropped ==
  /\ (endpoint = "behaviors" /\ pc = "done" /\ res.status = 200)
     => asMapping(res.data)
        = asMapping(jsonItems(processBehaviorData(wellFormedKeys(behaviorScan.keys))))
  /\ (endpoint = "score" /\ behaviorResponse.status = 200)
     => asMapping(behaviorResponse.data)
        = asMapping(jsonItems(processBehaviorData(wellFormedKeys(behaviorScan.keys))))

\* C4: for integer totals and a rate yes/total the calculator returns
\* ((damage + defense + healing + communication) / 4 + 1) / 2 * 100
\* + (yes / total) * 10 exactly, an absent category read as 0, nothing
\* clamped; four totals of 1 with rate 1 give 110, and the totals
\* {damage: 2, healing: 0} give a category part of 75.
C4_ScoreFormula ==
  pc = "calcDone" =>
    LET data == behaviorResponse.data
        entries == rejoinResponse.data
        yes == yesEntries(entries)
        total == Len(entries)
    IN /\ res.hasScore
       /\ scoreIs(res.score, fourTotals(data), yes, total)
       /\ (\A c \in fixedCategories : \E i \in 1..Len(data) :
             data[i].name = c /\ data[i].value.n = 1) /\ yes = total /\ Len(data) = 4
          => res.score.num = 110 * res.score.den
       /\ asMapping(data) = {[name |-> <<"damage">>, value |-> Num(2)],
                             [name |-> <<"healing">>, value |-> Num(0)]}
          => res.score.num * total = res.score.den * (75 * total + 10 * yes)

C4_Witness ==
  /\ pc = "calcDone"
  /\ Len(behaviorResponse.data) = 4
  /\ \A i \in 1..4 : behaviorResponse.data[i].value.n = 1
                     /\ behaviorResponse.data[i].name \in fixedCategories
  /\ \A i \in 1..Len(rejoinResponse.data) : rejoinResponse.data[i].key = <<"yes">>
  /\ res.score.num = 110 * res.score.den

\* C5: the rate division of a score lookup never has a divisor of zero, and
\* a score is answered only when the rejoin scan returned at least one key.
C5_NoZeroDivisor ==
  /\ \A d \in divisors : d >= 1
  /\ res.hasScore =>
       /\ rejoinScan.issued /\ rejoinScan.ok /\ Len(rejoinScan.keys) >= 1
       /\ res.score.den # 0

C5_Witness ==
  /\ endpoint = "score" /\ pc = "done"
  /\ res.hasScore
  /\ divisors = {Len(rejoinScan.keys)}
  /\ Len(rejoinScan.keys) = 2

\* C6: when its scan succeeds, the behaviours lookup and the rejoin lookup
\* answer 404 with success = false exactly when the scan returned no key;
\* otherwise 200 with the totals of the categories the keys name,
\* respectively one decoded entry per key, in the order of the keys.
namedCategories(keys) ==
  {c \in {split(keys[i])[Len(split(keys[i])) - 1] : i \in 1..Len(keys)} : c # <<>>}

C6_NotFoundIffEmpty ==
  /\ (endpoint = "behaviors" /\ pc = "done" /\ behaviorScan.ok) =>
       /\ (res.status = 404 /\ ~res.success) <=> (Len(behaviorScan.keys) = 0)
       /\ Len(behaviorScan.keys) > 0 =>
            /\ res.status = 200 /\ res.success /\ res.hasData
            /\ {res.data[i].name : i \in 1..Len(res.data)} = namedCategories(behaviorScan.keys)
            /\ Len(res.data) = Cardinality(namedCategories(behaviorScan.keys))
  /\ (endpoint = "rejoinRating" /\ pc = "done" /\ rejoinScan.ok) =>
       /\ (res.status = 404 /\ ~res.success) <=> (Len(rejoinScan.keys) = 0)
       /\ Len(rejoinScan.keys) > 0 =>
            /\ res.status = 200 /\ res.success /\ res.hasData
            /\ Len(res.data) = Len(rejoinScan.keys)
            /\ \A i \in 1..Len(res.data) :
                 <<"wowbehave", ":", "rejoin", ":">> \o reqName \o <<":">> \o res.data[i].key
                 = rejoinScan.keys[i]

C6_Witness ==
  /\ endpoint = "rejoinRating" /\ pc = "done" /\ rejoinScan.ok
  /\ Len(rejoinScan.keys) = 2
  /\ res.status = 200
  /\ Len(res.data) = 2

\* C7: a lookup answers 500 exactly when a scan made for it failed.
C7_InternalErrorIffScanFailed ==
  pc = "done" => ((res.status = 500) <=> faultOccurred)

\* C8: behaviour aggregation does not depend on the order of the keys: for
\* keys with integer values, every order of the scanned keys gives the
\* mapping the lookup answered with.
orderings(keys) ==
  {[i \in 1..Len(keys) |-> keys[p[i]]] :
     p \in {q \in [1..Len(keys) -> 1..Len(keys)] :
              \A i, j \in 1..Len(keys) : i # j => q[i] # q[j]}}

C8_OrderIndependent ==
  (endpoint = "behaviors" /\ pc = "done" /\ res.status = 200
     /\ \A i \in 1..Len(behaviorScan.keys) : parsesAsInteger(behaviorScan.keys[i]))
  => \A other \in orderings(behaviorScan.keys) :
       asMapping(jsonItems(processBehaviorData(other))) = asMapping(res.data)

\* C9: in a score request the rejoin fetch is issued only after the
\* behaviour fetch was answered 200; after a failed or not-found behaviour
\* fetch no rejoin fetch is issued; the request gets one response, no more.
C9_FetchesInOrder ==
  endpoint = "score" =>
    /\ fetches \in {<<"behaviors">>, <<"behaviors", "rejoinRating">>}
    /\ Len(fetches) = 2 => (behaviorScan.issued /\ behaviorResponse.status = 200)
    /\ (behaviorScan.issued /\ behaviorResponse.status # 200) =>
         (Len(fetches) = 1 /\ ~rejoinScan.issued /\ rejoinResponse = NoResponse)
    /\ rejoinScan.issued => Len(fetches) = 2
    /\ sent <= 1
    /\ (pc = "done") <=> (sent = 1)

C9_Witness ==
  /\ endpoint = "score" /\ pc = "done"
  /\ behaviorScan.issued /\ behaviorResponse.status = 404
  /\ fetches = <<"behaviors">>
  /\ sent = 1

\* C10: every category name the aggregation emits is one non-empty segment
\* without a colon, the second-to-last segment of a scanned key, so the
\* calculator's re-split gives the name back; and the score is made of the
\* values of the four fixed names alone.
emittedData ==
  IF endpoint = "behaviors" /\ res.status = 200 THEN res.data
  ELSE IF endpoint = "score" /\ behaviorResponse.status = 200 THEN behaviorResponse.data
  ELSE <<>>

fixedSum(data) ==
  LET v(i) == IF data[i].name \in fixedCategories /\ data[i].value.t = "int"
              THEN data[i].value.n ELSE 0
      sumTo[k \in 0..Len(data)] == IF k = 0 THEN 0 ELSE sumTo[k - 1] + v(k)
  IN sumTo[Len(data)]

C10_NamesAreSingleSegments ==
  /\ \A i \in 1..Len(emittedData) :
       LET nm == emittedData[i].name
       IN /\ nm # <<>>
          /\ \A k \in 1..Len(nm) : nm[k] # ":"
          /\ lastSegment(nm) = nm
          /\ nm \in namedCategories(behaviorScan.keys)
  /\ (endpoint = "score" /\ res.hasScore) =>
       scoreIs(res.score, fixedSum(behaviorResponse.data),
               yesEntries(rejoinResponse.data), Len(rejoinResponse.data))

C10_Witness ==
  /\ endpoint = "score" /\ pc = "done" /\ res.hasScore
  /\ \E i, j \in 1..Len(behaviorResponse.data) :
       /\ behaviorResponse.data[i].name = <<"other">>
       /\ behaviorResponse.data[j].name = <<"damage">>

====
